---- MODULE Spec2Model ----
(***************************************************************************)
(* Model of the content-generation pipeline of b2b-ai-content-generator:   *)
(* the helper functions of src/utils.py (has_long_paragraph,               *)
(* is_docs_domain, select_similar, extract_headings, extract_entities,     *)
(* get_style_rules) and the Generate handler of src/app.py with the        *)
(* Streamlit session state.                                                *)
(*                                                                         *)
(* Texts are sequences of characters over a small alphabet, URLs are       *)
(* sequences of lexical tokens; similarities and relevance scores are      *)
(* small integers standing for the floats of the code.                     *)
(***************************************************************************)
EXTENDS Integers, Sequences, FiniteSets, TLC

VARIABLES
    \* one call of has_long_paragraph(markdown_text, word_limit)
    markdown_text, word_limit, gate_result, gate_pc,
    \* one call of select_similar(topic, results, embed_model, k)
    results, k, sel_out, sel_pc,
    \* one call of extract_entities(urls, textrazor_key, min_relevance, top_n)
    n_urls, top_n, page_i, read_n, all_entities, ent_out, ent_pc,
    \* history: what the pages analyzed without failure contributed, and
    \* the entity the loop over resp.entities() has just handled
    ok_entities, page_buf, cur_entity,
    \* the Streamlit script of app.py: the session state, the position of
    \* the Generate handler and its local variables
    session_article, session_outline, pc,
    top10, selected_urls, competitor_outlines, must_include_entities,
    outline, article,
    \* history of the current (or last) run of the handler
    run, calls, gate_log, errors, outcome, prev_article,
    \* history: what the page fetched last by step 3 answered
    fetched,
    \* calls of get_style_rules(tonality, context, theme, audience_persona,
    \* banned_words) on the same arguments, and what each returned
    tonality, context, theme, audience_persona, banned_words, style_rules

gateVars == <<markdown_text, word_limit, gate_result, gate_pc>>
selVars == <<results, k, sel_out, sel_pc>>
entVars == <<n_urls, top_n, page_i, read_n, all_entities, ent_out, ent_pc,
             ok_entities, page_buf, cur_entity>>
appVars == <<session_article, session_outline, pc,
             top10, selected_urls, competitor_outlines, must_include_entities,
             outline, article,
             run, calls, gate_log, errors, outcome, prev_article, fetched>>
styleVars == <<tonality, context, theme, audience_persona, banned_words,
               style_rules>>
vars == <<gateVars, selVars, entVars, appVars, styleVars>>

(***************************************************************************)
(* Bounds of the model.                                                    *)
(***************************************************************************)
MaxTextLen == 6
MaxLimit == 2
MaxResults == 3
MaxK == 3
MaxPages == 2
MaxEnts == 2
MaxTopN == 2
MaxRuns == 2
MaxBanned == 2

(***************************************************************************)
(* Each specification below runs one part of the program; the variables of *)
(* the other parts rest at these values.                                   *)
(***************************************************************************)
\* no entity in hand
NoEntity == [id |-> "none", relevance_score |-> 0]

GateIdle ==
    /\ markdown_text = <<>>
    /\ word_limit = 0
    /\ gate_result = FALSE
    /\ gate_pc = "idle"

SelIdle ==
    /\ results = <<>>
    /\ k = 0
    /\ sel_out = [raised |-> FALSE, value |-> <<>>, embedded |-> FALSE]
    /\ sel_pc = "idle"

EntIdle ==
    /\ n_urls = 0
    /\ top_n = 0
    /\ page_i = 0
    /\ read_n = 0
    /\ all_entities = <<>>
    /\ ent_out = <<>>
    /\ ent_pc = "idle"
    /\ ok_entities = <<>>
    /\ page_buf = <<>>
    /\ cur_entity = NoEntity

StyleIdle ==
    /\ tonality = <<>>
    /\ context = <<>>
    /\ theme = <<>>
    /\ audience_persona = <<>>
    /\ banned_words = <<>>
    /\ style_rules = <<>>

\* no page fetched
NoFetch == [response |-> "none", body |-> "none"]

\* Python's None for a document (an outline or an article)
None == [run |-> 0, stage |-> "None", doc |-> "None"]

AppIdle ==
    /\ session_article = None
    /\ session_outline = None
    /\ pc = "idle"
    /\ top10 = <<>>
    /\ selected_urls = <<>>
    /\ competitor_outlines = <<>>
    /\ must_include_entities = <<>>
    /\ outline = None
    /\ article = None
    /\ run = 0
    /\ calls = <<>>
    /\ gate_log = <<>>
    /\ errors = 0
    /\ outcome = "none"
    /\ prev_article = None
    /\ fetched = NoFetch

(***************************************************************************)
(* Generic helpers.                                                        *)
(***************************************************************************)
SeqsUpTo(S, n) == UNION {[1..m -> S] : m \in 0..n}

(***************************************************************************)
(* Text: Python str as a sequence of characters.  "w" is any character     *)
(* that is neither white space nor the heading marker.                     *)
(***************************************************************************)
Chars == {"#", "w", " ", "\n"}

\* str.isspace / the regular expression class \s
IsSpace(c) == c \in {" ", "\n"}

\* first index >= i that is past the end or holds a non-space character
RECURSIVE RunEnd(_, _)
RunEnd(s, i) ==
    IF i > Len(s) \/ ~IsSpace(s[i]) THEN i ELSE RunEnd(s, i + 1)

\* the last index in lo..hi-1 holding a newline, 0 when there is none
LastNewline(s, lo, hi) ==
    LET nl == {m \in lo..(hi - 1) : s[m] = "\n"}
    IN  IF nl = {} THEN 0 ELSE CHOOSE m \in nl : \A x \in nl : x <= m

\* the places where the pattern \n\s*\n matches from index i on: a newline
\* whose following white-space run holds another newline
MatchStarts(s, i) ==
    {j \in i..Len(s) : s[j] = "\n" /\ LastNewline(s, j + 1, RunEnd(s, j + 1)) # 0}

\* re.split(r"\n\s*\n", s): leftmost matches, \s* greedy (it backtracks to
\* the last newline of the white-space run that follows the first newline)
RECURSIVE ReSplitFrom(_, _)
ReSplitFrom(s, start) ==
    IF MatchStarts(s, start) = {} THEN <<SubSeq(s, start, Len(s))>>
    ELSE LET j == CHOOSE x \in MatchStarts(s, start) :
                      \A y \in MatchStarts(s, start) : x <= y
             m == LastNewline(s, j + 1, RunEnd(s, j + 1))
         IN  <<SubSeq(s, start, j - 1)>> \o ReSplitFrom(s, m + 1)

ReSplit(s) == ReSplitFrom(s, 1)

\* p.strip().startswith("#"): the first non-space character is the marker
StripStartsWithHash(p) ==
    LET j == RunEnd(p, 1) IN j <= Len(p) /\ p[j] = "#"

\* len(p.split()): the number of maximal runs of non-space characters
WordCount(p) ==
    Cardinality({i \in 1..Len(p) :
                    ~IsSpace(p[i]) /\ (i = 1 \/ IsSpace(p[i - 1]))})

\* the comparison of line 172, mis-written: a paragraph AT the limit counts
has_long_paragraph_ge(text, limit) ==
    \E i \in 1..Len(ReSplit(text)) :
        /\ ~StripStartsWithHash(ReSplit(text)[i])
        /\ WordCount(ReSplit(text)[i]) >= limit

has_long_paragraph(text, limit) ==
    \E i \in 1..Len(ReSplit(text)) :
        /\ ~StripStartsWithHash(ReSplit(text)[i])
        /\ WordCount(ReSplit(text)[i]) > limit

(***************************************************************************)
(* URLs: a link is a sequence of lexical tokens.                           *)
(*   "http:"  a scheme with its colon      "//"     the authority marker   *)
(*   "user@"  user-info                    "docs."  the reserved label     *)
(*   "DOCS."  the same label in capitals   "ex.com" the rest of a host     *)
(*   "/p"     a path                       "["      an unclosed bracket    *)
(***************************************************************************)
L_plain == <<"http:", "//", "ex.com", "/p">>
L_docs == <<"http:", "//", "docs.", "ex.com", "/p">>
L_docsCaps == <<"http:", "//", "DOCS.", "ex.com">>
L_userDocs == <<"http:", "//", "user@", "docs.", "ex.com", "/p">>
L_bareDocs == <<"docs.", "ex.com", "/p">>
L_bare == <<"ex.com", "/p">>
L_bracket == <<"http:", "//", "[", "ex.com">>

Links == {L_plain, L_docs, L_docsCaps, L_userDocs, L_bareDocs, L_bare, L_bracket}

\* str.lower() on a token
Lower(t) ==
    CASE t = "DOCS." -> "docs."
      [] t = "Kafka" -> "kafka"
      [] OTHER -> t

\* the tokens of s before the first path token
RECURSIVE UpToPath(_)
UpToPath(s) ==
    IF s = <<>> \/ Head(s) = "/p" THEN <<>> ELSE <<Head(s)>> \o UpToPath(Tail(s))

InSeq(x, s) == \E i \in 1..Len(s) : s[i] = x

\* urllib.parse.urlparse(url): the scheme is split off, a netloc is read
\* only after "//", up to the first of "/?#"; an unmatched bracket in the
\* netloc raises ValueError
urlparse(url) ==
    LET rest == IF url # <<>> /\ Head(url) = "http:" THEN Tail(url) ELSE url
        netloc == IF rest # <<>> /\ Head(rest) = "//"
                  THEN UpToPath(Tail(rest)) ELSE <<>>
    IN  [raised |-> InSeq("[", netloc), netloc |-> netloc]

\* netloc.lower().startswith("docs.")
StartsWithDocs(netloc) == netloc # <<>> /\ Lower(Head(netloc)) = "docs."

\* is_docs_domain(url): the bare except turns any failure into True
is_docs_domain(url) ==
    IF urlparse(url).raised
    THEN [raised |-> FALSE, value |-> TRUE]
    ELSE [raised |-> FALSE, value |-> StartsWithDocs(urlparse(url).netloc)]

(***************************************************************************)
(* Search results: title (here its position in the result list), link      *)
(* (hasLink is false when the key is missing or None) and sim, the cosine  *)
(* similarity the embedding model gives its title and snippet.             *)
(***************************************************************************)
Sims == {0, 1}

LinkChoices ==
    {[hasLink |-> FALSE, link |-> <<>>]}
        \cup {[hasLink |-> TRUE, link |-> l] : l \in Links}

\* r.get("link"): falsy for a missing key, None and the empty string
LinkTruthy(r) == r.hasLink /\ r.link # <<>>

\* line 71: r.get("link") and not is_docs_domain(r["link"])
Kept(r) == LinkTruthy(r) /\ ~is_docs_domain(r.link).value

RECURSIVE FilterKept(_)
FilterKept(rs) ==
    IF rs = <<>> THEN <<>>
    ELSE (IF Kept(Head(rs)) THEN <<Head(rs)>> ELSE <<>>) \o FilterKept(Tail(rs))

\* sorted(..., key=sim, reverse=True) is stable: an element goes after the
\* elements before it whose similarity is greater or equal
InsertDesc(t, x) ==
    LET n == Cardinality({i \in 1..Len(t) : t[i].sim >= x.sim})
    IN  SubSeq(t, 1, n) \o <<x>> \o SubSeq(t, n + 1, Len(t))

\* the sort of line 82 without reverse=True: ascending similarity
InsertAsc(t, x) ==
    LET n == Cardinality({i \in 1..Len(t) : t[i].sim <= x.sim})
    IN  SubSeq(t, 1, n) \o <<x>> \o SubSeq(t, n + 1, Len(t))

RECURSIVE SortedAsc(_)
SortedAsc(rs) ==
    IF rs = <<>> THEN <<>>
    ELSE InsertAsc(SortedAsc(SubSeq(rs, 1, Len(rs) - 1)), rs[Len(rs)])

RECURSIVE SortedDesc(_)
SortedDesc(rs) ==
    IF rs = <<>> THEN <<>>
    ELSE InsertDesc(SortedDesc(SubSeq(rs, 1, Len(rs) - 1)), rs[Len(rs)])

\* s[:n] for n >= 0
Take(s, n) == SubSeq(s, 1, IF n < Len(s) THEN n ELSE Len(s))

\* select_similar with the sort ascending
select_similar_ascending(rs, kk) ==
    [raised |-> \E i \in 1..Len(rs) :
                    LinkTruthy(rs[i]) /\ is_docs_domain(rs[i].link).raised,
     value |-> Take(SortedAsc(FilterKept(rs)), kk),
     embedded |-> FilterKept(rs) # <<>>]

\* select_similar without lines 73-74: the embedding model is asked to
\* encode the topic and an empty list of texts
select_similar_always_encodes(rs, kk) ==
    [raised |-> \E i \in 1..Len(rs) :
                    LinkTruthy(rs[i]) /\ is_docs_domain(rs[i].link).raised,
     value |-> Take(SortedDesc(FilterKept(rs)), kk),
     embedded |-> TRUE]

\* select_similar(topic, results, embed_model, k); an exception of the
\* filter's comprehension propagates to the caller; embedded tells whether
\* embed_model.encode was called (lines 78-79, after the return of line 74)
select_similar(rs, kk) ==
    [raised |-> \E i \in 1..Len(rs) :
                    LinkTruthy(rs[i]) /\ is_docs_domain(rs[i].link).raised,
     value |-> IF FilterKept(rs) = <<>> THEN <<>>
               ELSE Take(SortedDesc(FilterKept(rs)), kk),
     embedded |-> FilterKept(rs) # <<>>]

(***************************************************************************)
(* Specification SpecSelect: one call of select_similar on any list of at  *)
(* most MaxResults results and any k in 0..MaxK.                           *)
(***************************************************************************)
\* a search result made of a title, a link choice and a similarity
MkResult(i, c) == [title |-> i, hasLink |-> c[1].hasLink, link |-> c[1].link, sim |-> c[2]]

SelInit ==
    /\ \E n \in 0..MaxResults : \E f \in [1..n -> LinkChoices \X Sims] :
          results = [i \in 1..n |-> MkResult(i, f[i])]
    /\ k \in 0..MaxK
    /\ sel_out = [raised |-> FALSE, value |-> <<>>, embedded |-> FALSE]
    /\ sel_pc = "call"
    /\ GateIdle
    /\ EntIdle
    /\ AppIdle
    /\ StyleIdle

SelCall ==
    /\ sel_pc = "call"
    /\ sel_out' = select_similar(results, k)
    /\ sel_pc' = "done"
    /\ UNCHANGED <<results, k>>
    /\ UNCHANGED <<gateVars, entVars, appVars, styleVars>>

SelNext == SelCall

SpecSelect == SelInit /\ [][SelNext]_vars

(***************************************************************************)
(* extract_entities.  The entity-analysis provider is the environment: it  *)
(* fails or answers for each URL, and hands over the entities of a page    *)
(* one at a time.  Relevance scores are in tenths (min_relevance 0.2 is 2).*)
(***************************************************************************)
min_relevance == 2

RawIds == {"kafka", "Kafka", "flink"}
Rels == {1, 2, 3}
Entities == [id : RawIds, relevance_score : Rels]

\* e.relevance_score > min_relevance: an entity at the threshold is dropped
relevant_strict(e) == e.relevance_score > min_relevance

\* line 140: the test that keeps an entity
relevant(e) == e.relevance_score >= min_relevance

Ids(all) == {all[i] : i \in 1..Len(all)}

\* the count value_counts gives an identifier
Count(all, x) == Cardinality({i \in 1..Len(all) : all[i] = x})

Injective(o) == \A i, j \in 1..Len(o) : i # j => o[i] # o[j]

\* value_counts(ascending=True): the least frequent first
ValueCountsOrdersAscending(all) ==
    {o \in [1..Cardinality(Ids(all)) -> Ids(all)] :
        /\ Injective(o)
        /\ \A i, j \in 1..Len(o) : i < j => Count(all, o[i]) <= Count(all, o[j])}

\* pd.Series(all).value_counts().index: the distinct identifiers by
\* descending count.  The sort behind it is not a stable one (sort_values
\* with its default kind), so identifiers with equal counts come in an order
\* the library does not fix: every order is possible.
ValueCountsOrders(all) ==
    {o \in [1..Cardinality(Ids(all)) -> Ids(all)] :
        /\ Injective(o)
        /\ \A i, j \in 1..Len(o) : i < j => Count(all, o[i]) >= Count(all, o[j])}

\* what extract_entities may return for the list all_entities
EntityResults(all, n) ==
    IF all = <<>> THEN {<<>>}
    ELSE {Take(o, n) : o \in ValueCountsOrders(all)}

EntInit ==
    /\ n_urls \in 0..MaxPages
    /\ top_n \in 0..MaxTopN
    /\ page_i = 0
    /\ read_n = 0
    /\ all_entities = <<>>
    /\ ent_out = <<>>
    /\ ent_pc = "page"
    /\ ok_entities = <<>>
    /\ page_buf = <<>>
    /\ cur_entity = NoEntity
    /\ GateIdle
    /\ SelIdle
    /\ AppIdle
    /\ StyleIdle

\* line 138: analyze_url answers for the next URL
AnalyzeOk ==
    /\ ent_pc = "page"
    /\ page_i < n_urls
    /\ page_i' = page_i + 1
    /\ read_n' = 0
    /\ page_buf' = <<>>
    /\ ent_pc' = "iter"
    /\ UNCHANGED <<n_urls, top_n, all_entities, ent_out, ok_entities,
                   cur_entity>>
    /\ UNCHANGED <<gateVars, selVars, appVars, styleVars>>

\* lines 138, 142-144: analyze_url (or r["link"]) raises; the URL is skipped
AnalyzeFail ==
    /\ ent_pc = "page"
    /\ page_i < n_urls
    /\ page_i' = page_i + 1
    /\ UNCHANGED <<n_urls, top_n, read_n, all_entities, ent_out, ent_pc,
                   ok_entities, page_buf, cur_entity>>
    /\ UNCHANGED <<gateVars, selVars, appVars, styleVars>>

\* lines 139-141: the next entity of the page is read and kept or dropped
ReadEntity ==
    /\ ent_pc = "iter"
    /\ read_n < MaxEnts
    /\ \E e \in Entities :
          /\ cur_entity' = e
          /\ IF relevant(e)
             THEN /\ all_entities' = Append(all_entities, Lower(e.id))
                  /\ page_buf' = Append(page_buf, Lower(e.id))
             ELSE UNCHANGED <<all_entities, page_buf>>
    /\ read_n' = read_n + 1
    /\ UNCHANGED <<n_urls, top_n, page_i, ent_out, ent_pc, ok_entities>>
    /\ UNCHANGED <<gateVars, selVars, appVars, styleVars>>

\* lines 139-144: reading the next entity raises (an entity without id or
\* score, a broken response); the except clause goes on to the next URL and
\* all_entities keeps what the page had appended
ReadFail ==
    /\ ent_pc = "iter"
    /\ read_n < MaxEnts
    /\ page_buf' = <<>>
    /\ cur_entity' = NoEntity
    /\ ent_pc' = "page"
    /\ UNCHANGED <<n_urls, top_n, page_i, read_n, all_entities, ent_out,
                   ok_entities>>
    /\ UNCHANGED <<gateVars, selVars, appVars, styleVars>>

\* line 139: the page has no more entities
EndPage ==
    /\ ent_pc = "iter"
    /\ ok_entities' = ok_entities \o page_buf
    /\ page_buf' = <<>>
    /\ cur_entity' = NoEntity
    /\ ent_pc' = "page"
    /\ UNCHANGED <<n_urls, top_n, page_i, read_n, all_entities, ent_out>>
    /\ UNCHANGED <<gateVars, selVars, appVars, styleVars>>

\* lines 146-150: the loop is over; count, rank, cut
Rank ==
    /\ ent_pc = "page"
    /\ page_i = n_urls
    /\ ent_out' \in EntityResults(all_entities, top_n)
    /\ ent_pc' = "done"
    /\ UNCHANGED <<n_urls, top_n, page_i, read_n, all_entities, ok_entities,
                   page_buf, cur_entity>>
    /\ UNCHANGED <<gateVars, selVars, appVars, styleVars>>

EntNext ==
    \/ AnalyzeOk
    \/ AnalyzeFail
    \/ ReadEntity
    \/ ReadFail
    \/ EndPage
    \/ Rank

SpecEntities == EntInit /\ [][EntNext]_vars

(***************************************************************************)
(* Specification SpecGate: one call of has_long_paragraph on any text of   *)
(* at most MaxTextLen characters and any ceiling in 0..MaxLimit.           *)
(***************************************************************************)
GateInit ==
    /\ markdown_text \in SeqsUpTo(Chars, MaxTextLen)
    /\ word_limit \in 0..MaxLimit
    /\ gate_result = FALSE
    /\ gate_pc = "call"
    /\ SelIdle
    /\ EntIdle
    /\ AppIdle
    /\ StyleIdle

GateCall ==
    /\ gate_pc = "call"
    /\ gate_result' = has_long_paragraph(markdown_text, word_limit)
    /\ gate_pc' = "done"
    /\ UNCHANGED <<markdown_text, word_limit>>
    /\ UNCHANGED <<selVars, entVars, appVars, styleVars>>

GateNext == GateCall

SpecGate == GateInit /\ [][GateNext]_vars

(***************************************************************************)
(* get_style_rules.  A text is a sequence of characters; the fixed parts   *)
(* of the template are single tokens:                                      *)
(*   "RULES"  the text from the opening newline to the line BANNED WORDS   *)
(*            and its newline                                              *)
(*   "Tone: ", "Context: ", "Theme: ", "Audience: "  the four labels       *)
(* Specification SpecStyle: two calls of get_style_rules on the same       *)
(* arguments, any list of at most MaxBanned banned words.                  *)
(***************************************************************************)
\* the banned words tried: the empty string, plain words, a word that holds
\* the separator
BannedWordChoices == {<<>>, <<"a">>, <<"b">>, <<",", " ">>}

\* the free texts tried
FieldTexts == {<<>>, <<"x">>}

\* ",".join(ws): the separator without its space
join_comma_only(ws) ==
    LET RECURSIVE J(_)
        J(t) == IF t = <<>> THEN <<>>
                ELSE IF Len(t) = 1 THEN t[1]
                ELSE t[1] \o <<",">> \o J(Tail(t))
    IN  J(ws)

\* line 192: ", ".join(banned_words)
join(ws) ==
    LET RECURSIVE J(_)
        J(t) == IF t = <<>> THEN <<>>
                ELSE IF Len(t) = 1 THEN t[1]
                ELSE t[1] \o <<",", " ">> \o J(Tail(t))
    IN  J(ws)

\* lines 192-229: the f-string
get_style_rules(ton, ctx, thm, aud, banned) ==
    LET banned_words_str == join(banned)
    IN  <<"RULES">> \o banned_words_str
            \o <<"\n", "\n", "Tone: ">> \o ton
            \o <<"\n", "Context: ">> \o ctx
            \o <<"\n", "Theme: ">> \o thm
            \o <<"\n", "Audience: ">> \o aud
            \o <<"\n">>

StyleInit ==
    /\ tonality \in FieldTexts
    /\ context \in FieldTexts
    /\ theme \in FieldTexts
    /\ audience_persona \in FieldTexts
    /\ banned_words \in SeqsUpTo(BannedWordChoices, MaxBanned)
    /\ style_rules = <<>>
    /\ GateIdle
    /\ SelIdle
    /\ EntIdle
    /\ AppIdle

\* one call; the function reads its arguments and nothing else
StyleCall ==
    /\ Len(style_rules) < 2
    /\ style_rules' = Append(style_rules,
           get_style_rules(tonality, context, theme, audience_persona, banned_words))
    /\ UNCHANGED <<tonality, context, theme, audience_persona, banned_words>>
    /\ UNCHANGED <<gateVars, selVars, entVars, appVars>>

StyleNext == StyleCall

SpecStyle == StyleInit /\ [][StyleNext]_vars

(***************************************************************************)
(* The Generate handler of app.py and the Streamlit session state.         *)
(*                                                                         *)
(* A document is a record: the run that produced it, the stage that        *)
(* produced it and the name of its Markdown text.  The search provider,    *)
(* the page fetches, the entity provider and the generation service are    *)
(* the environment.                                                        *)
(***************************************************************************)
default_word_limit == 130
default_k == 3

\* "word " * n
Words(n) == [i \in 1..(2 * n) |-> IF i % 2 = 1 THEN "w" ELSE " "]

\* the Markdown texts the generation service answers with
DocNames == {"title_short_150", "h2_100", "para_130", "para_131"}

MarkdownOf(name) ==
    CASE name = "title_short_150" ->
            <<"#", " ", "w", "\n", "\n", "w", " ", "w", "\n", "\n">> \o Words(150)
      [] name = "h2_100" -> <<"#", "#", " ", "w", "\n", "\n">> \o Words(100)
      [] name = "para_130" -> Words(130)
      [] name = "para_131" -> Words(131)
      [] OTHER -> <<>>

\* what client.chat.completions.create does: it fails or answers a text
LLMResponses == {[ok |-> FALSE, doc |-> "None"]} \cup {[ok |-> TRUE, doc |-> d] : d \in DocNames}

\* call_llm with a retry after a failure: a second request is sent
LlmAttemptsRetry(stage, resp) ==
    IF resp.ok THEN <<[stage |-> stage, ok |-> TRUE]>>
    ELSE <<[stage |-> stage, ok |-> FALSE], [stage |-> stage, ok |-> FALSE]>>

\* call_llm(prompt, client, model): one request to the generation service;
\* its failure is re-raised as Exception("LLM API error")
LlmAttempts(stage, resp) == <<[stage |-> stage, ok |-> resp.ok]>>

\* line 254 left out: the outline would reach the session only with the article
StoreOutlineNever(session, doc) == session

\* line 254: st.session_state.outline = outline
StoreOutline(session, doc) == doc

\* a handler that checks the refactored article again
GateAfterRefactorToo(stage) == stage \in {"article", "refactor"}

\* line 273: the gate is evaluated on the article as the article stage left it
GateAfter(stage) == stage = "article"

\* what the search provider may answer (serp_top_organic): nothing, only
\* pages the filter drops, or a mix
R(title, link, sim) == [title |-> title, hasLink |-> TRUE, link |-> link, sim |-> sim]

SerpOutcomes ==
    { <<>>,
      <<R(1, L_docs, 1), [title |-> 2, hasLink |-> FALSE, link |-> <<>>, sim |-> 1]>>,
      <<R(1, L_bracket, 1), R(2, L_docsCaps, 0)>>,
      <<R(1, L_plain, 0), R(2, L_docs, 1), R(3, L_bare, 1)>> }

\* what a fetch meets (requests.get, raise_for_status) and, for a page that
\* came back, what the parser meets: tags of the page with their text, or
\* markup that makes the parser raise
PageOutcomes ==
    {[response |-> r, body |-> "none"] :
        r \in {"timeout", "connection_error", "status_404"}}
        \cup {[response |-> "status_200", body |-> b] :
                 b \in {"headings", "no_headings", "unparsable"}}

\* soup.find_all(["h1", "h2", "h3"]): the heading tags of a body with
\* tag.get_text(strip=True)
TagsOf(body) ==
    IF body = "headings"
    THEN <<[name |-> "h1", txt |-> "Title"], [name |-> "h2", txt |-> ""],
           [name |-> "h3", txt |-> "Sub"]>>
    ELSE <<>>

\* tag.name.upper()
Upper(name) ==
    CASE name = "h1" -> "H1"
      [] name = "h2" -> "H2"
      [] name = "h3" -> "H3"
      [] OTHER -> name

\* lines 108-111: the tags with a text, as (name, text)
RECURSIVE HeadingsOf(_)
HeadingsOf(tags) ==
    IF tags = <<>> THEN <<>>
    ELSE (IF Head(tags).txt # "" THEN <<<<Upper(Head(tags).name), Head(tags).txt>>>>
          ELSE <<>>) \o HeadingsOf(Tail(tags))

max_headings == 150

\* requests refuses a URL without a scheme (MissingSchema)
HasScheme(url) == url # <<>> /\ Head(url) = "http:"

\* lines 102-105 raise: the URL is refused, the fetch fails, the status is
\* not 2xx or the parser fails
FetchRaises(url, o) ==
    \/ ~HasScheme(url)
    \/ o.response # "status_200"
    \/ o.body = "unparsable"

\* extract_headings without its except clause: the failure reaches the caller
extract_headings_propagates(url, o) ==
    IF FetchRaises(url, o)
    THEN [raised |-> TRUE, value |-> <<>>]
    ELSE [raised |-> FALSE, value |-> Take(HeadingsOf(TagsOf(o.body)), max_headings)]

\* extract_headings(url): lines 98-115; the except clause answers [] for
\* every exception of the try block
extract_headings(url, o) ==
    IF FetchRaises(url, o)
    THEN [raised |-> FALSE, value |-> <<>>]
    ELSE [raised |-> FALSE, value |-> Take(HeadingsOf(TagsOf(o.body)), max_headings)]

\* extract_entities(selected_urls, key): no URL gives no entity; otherwise
\* the provider decides, and the result is a duplicate-free list of
\* lower-case identifiers
EntityLists == {<<>>, <<"kafka">>, <<"flink">>, <<"kafka", "flink">>, <<"flink", "kafka">>}

extract_entities(urls) == IF urls = <<>> THEN {<<>>} ELSE EntityLists

AppInit ==
    /\ AppIdle
    /\ GateIdle
    /\ SelIdle
    /\ EntIdle
    /\ StyleIdle

LocalsCleared ==
    /\ top10' = <<>>
    /\ selected_urls' = <<>>
    /\ competitor_outlines' = <<>>
    /\ must_include_entities' = <<>>
    /\ outline' = None
    /\ article' = None

\* lines 292-294: the except clause of the handler; the script goes on to
\* the display section and ends
Except ==
    /\ errors' = errors + 1
    /\ outcome' = "failed"
    /\ pc' = "idle"
    /\ LocalsCleared

\* lines 168-183: the Generate button; the keys and the topic are validated
ClickGenerate ==
    /\ pc = "idle"
    /\ run < MaxRuns
    /\ run' = run + 1
    /\ calls' = <<>>
    /\ gate_log' = <<>>
    /\ errors' = 0
    /\ prev_article' = session_article
    /\ \/ /\ pc' = "serp"
          /\ outcome' = "running"
       \/ /\ pc' = "idle"
          /\ outcome' = "invalid"
    /\ UNCHANGED <<session_article, session_outline, top10, selected_urls,
                   competitor_outlines, must_include_entities, outline, article>>
    /\ UNCHANGED <<gateVars, selVars, entVars, fetched, styleVars>>

\* lines 185-195: step 1; no result stops the script (st.stop), a failure
\* of the provider reaches the except clause
SerpStep ==
    /\ pc = "serp"
    /\ \/ \E res \in SerpOutcomes :
             /\ res # <<>>
             /\ top10' = res
             /\ pc' = "select"
             /\ UNCHANGED <<selected_urls, competitor_outlines,
                            must_include_entities, outline, article,
                            outcome, errors>>
       \/ /\ <<>> \in SerpOutcomes
          /\ outcome' = "no_results"
          /\ pc' = "idle"
          /\ LocalsCleared
          /\ UNCHANGED errors
       \/ Except
    /\ UNCHANGED <<session_article, session_outline, run, calls, gate_log, prev_article>>
    /\ UNCHANGED <<gateVars, selVars, entVars, fetched, styleVars>>

\* lines 197-206: step 2
SelectStep ==
    /\ pc = "select"
    /\ IF select_similar(top10, default_k).raised
       THEN Except
       ELSE /\ selected_urls' = select_similar(top10, default_k).value
            /\ pc' = "headings"
            /\ UNCHANGED <<top10, competitor_outlines, must_include_entities,
                           outline, article, errors, outcome>>
    /\ UNCHANGED <<session_article, session_outline, run, calls, gate_log, prev_article>>
    /\ UNCHANGED <<gateVars, selVars, entVars, fetched, styleVars>>

\* lines 213-221: step 3, one URL of the loop
HeadingsStep ==
    /\ pc = "headings"
    /\ Len(competitor_outlines) < Len(selected_urls)
    /\ \E o \in PageOutcomes :
          LET url == selected_urls[Len(competitor_outlines) + 1].link
              headings == extract_headings(url, o)
          IN  /\ fetched' = o
              /\ IF headings.raised
                 THEN Except
                 ELSE /\ competitor_outlines' = Append(competitor_outlines,
                              [url |-> url, headings |-> headings.value])
                      /\ UNCHANGED <<pc, top10, selected_urls,
                                     must_include_entities, outline, article,
                                     errors, outcome>>
    /\ UNCHANGED <<session_article, session_outline,
                   run, calls, gate_log, prev_article>>
    /\ UNCHANGED <<gateVars, selVars, entVars, styleVars>>

\* lines 226-236: step 4, after the loop of step 3
EntitiesStep ==
    /\ pc = "headings"
    /\ Len(competitor_outlines) = Len(selected_urls)
    /\ must_include_entities' \in extract_entities(selected_urls)
    /\ pc' = "outline"
    /\ fetched' = NoFetch
    /\ UNCHANGED <<session_article, session_outline, top10, selected_urls,
                   competitor_outlines, outline, article,
                   run, calls, gate_log, errors, outcome, prev_article>>
    /\ UNCHANGED <<gateVars, selVars, entVars, styleVars>>

\* lines 244-259: step 5; the outline goes to the session state at once
GenOutline ==
    /\ pc = "outline"
    /\ \E resp \in LLMResponses :
          /\ resp.ok => resp.doc = "h2_100"
          /\ calls' = calls \o LlmAttempts("outline", resp)
          /\ IF resp.ok
             THEN /\ outline' = [run |-> run, stage |-> "outline", doc |-> resp.doc]
                  /\ session_outline' = StoreOutline(session_outline, outline')
                  /\ pc' = "article"
                  /\ UNCHANGED <<top10, selected_urls, competitor_outlines,
                                 must_include_entities, article, errors, outcome>>
             ELSE /\ Except
                  /\ UNCHANGED session_outline
    /\ UNCHANGED <<session_article, run, gate_log, prev_article>>
    /\ UNCHANGED <<gateVars, selVars, entVars, fetched, styleVars>>

\* lines 261-270: step 6
GenArticle ==
    /\ pc = "article"
    /\ \E resp \in LLMResponses :
          /\ calls' = calls \o LlmAttempts("article", resp)
          /\ IF resp.ok
             THEN /\ article' = [run |-> run, stage |-> "article", doc |-> resp.doc]
                  /\ pc' = "gate"
                  /\ UNCHANGED <<top10, selected_urls, competitor_outlines,
                                 must_include_entities, outline, errors, outcome>>
             ELSE Except
    /\ UNCHANGED <<session_article, session_outline, run, gate_log, prev_article>>
    /\ UNCHANGED <<gateVars, selVars, entVars, fetched, styleVars>>

\* line 273: step 7, the test of the draft
GateStep ==
    /\ pc = "gate"
    /\ GateAfter(article.stage)
    /\ LET long == has_long_paragraph(MarkdownOf(article.doc), default_word_limit)
       IN  /\ gate_log' = Append(gate_log, [stage |-> article.stage, result |-> long])
           /\ pc' = IF long THEN "refactor" ELSE "polish"
    /\ UNCHANGED <<session_article, session_outline, top10, selected_urls,
                   competitor_outlines, must_include_entities, outline, article,
                   run, calls, errors, outcome, prev_article>>
    /\ UNCHANGED <<gateVars, selVars, entVars, fetched, styleVars>>

\* lines 274-277: step 7, the refactor call; its answer is not tested again
GenRefactor ==
    /\ pc = "refactor"
    /\ \E resp \in LLMResponses :
          /\ calls' = calls \o LlmAttempts("refactor", resp)
          /\ IF resp.ok
             THEN /\ article' = [run |-> run, stage |-> "refactor", doc |-> resp.doc]
                  /\ pc' = IF GateAfter("refactor") THEN "gate" ELSE "polish"
                  /\ UNCHANGED <<top10, selected_urls, competitor_outlines,
                                 must_include_entities, outline, errors, outcome>>
             ELSE Except
    /\ UNCHANGED <<session_article, session_outline, run, gate_log, prev_article>>
    /\ UNCHANGED <<gateVars, selVars, entVars, fetched, styleVars>>

\* lines 281-290: step 8; the article goes to the session state; the
\* handler ends
GenPolish ==
    /\ pc = "polish"
    /\ \E resp \in LLMResponses :
          /\ calls' = calls \o LlmAttempts("polish", resp)
          /\ IF resp.ok
             THEN /\ session_article' = [run |-> run, stage |-> "polish", doc |-> resp.doc]
                  /\ outcome' = "done"
                  /\ pc' = "idle"
                  /\ LocalsCleared
                  /\ UNCHANGED errors
             ELSE /\ Except
                  /\ UNCHANGED session_article
    /\ UNCHANGED <<session_outline, run, gate_log, prev_article>>
    /\ UNCHANGED <<gateVars, selVars, entVars, fetched, styleVars>>

\* lines 297, 356-362: the Clear All button, shown while an article is
\* held; the script is run again with nothing to do
ClearAll ==
    /\ pc = "idle"
    /\ session_article # None
    /\ session_article' = None
    /\ session_outline' = None
    /\ outcome' = "cleared"
    /\ UNCHANGED <<pc, top10, selected_urls, competitor_outlines,
                   must_include_entities, outline, article,
                   run, calls, gate_log, errors, prev_article>>
    /\ UNCHANGED <<gateVars, selVars, entVars, fetched, styleVars>>

Next ==
    \/ ClickGenerate
    \/ SerpStep
    \/ SelectStep
    \/ HeadingsStep
    \/ EntitiesStep
    \/ GenOutline
    \/ GenArticle
    \/ GateStep
    \/ GenRefactor
    \/ GenPolish
    \/ ClearAll

Spec == AppInit /\ [][Next]_vars

\* lines 175-294: the handler is one sequential script; once started, each
\* of its steps is taken (every call it makes returns or raises).  The
\* clicks of the user are under no such obligation.
CallStep ==
    \/ SerpStep
    \/ SelectStep
    \/ HeadingsStep
    \/ EntitiesStep
    \/ GenOutline
    \/ GenArticle
    \/ GenRefactor
    \/ GenPolish

\* line 273: the handler is about to test the draft
AtGate == pc = "gate" /\ GateAfter(article.stage)

\* the test of line 273 is a local computation that ends: the handler does
\* not rest at it
SpecLive == Spec /\ WF_vars(CallStep) /\ []<>(~AtGate)

(***************************************************************************)
(* C1.  The paragraphs of a text, read line by line: a line is blank when  *)
(* it holds only white space, a paragraph is a maximal run of consecutive  *)
(* non-blank lines.  This reading does not use the regular expression.     *)
(***************************************************************************)
LineOf(s, i) == 1 + Cardinality({j \in 1..(i - 1) : s[j] = "\n"})

NumLines(s) == LineOf(s, Len(s) + 1)

BlankLine(s, l) == \A i \in 1..Len(s) : LineOf(s, i) = l => IsSpace(s[i])

IsParagraph(s, a, b) ==
    /\ a <= b
    /\ \A l \in a..b : ~BlankLine(s, l)
    /\ a = 1 \/ BlankLine(s, a - 1)
    /\ b = NumLines(s) \/ BlankLine(s, b + 1)

ParagraphWords(s, a, b) ==
    Cardinality({i \in 1..Len(s) :
                    /\ LineOf(s, i) \in a..b
                    /\ ~IsSpace(s[i])
                    /\ i = 1 \/ IsSpace(s[i - 1])})

ParagraphIsHeading(s, a) ==
    \E i \in 1..Len(s) :
        /\ LineOf(s, i) = a
        /\ s[i] = "#"
        /\ \A j \in 1..(i - 1) : LineOf(s, j) = a => IsSpace(s[j])

SomeLongParagraph(s, limit) ==
    \E a \in 1..NumLines(s) : \E b \in a..NumLines(s) :
        /\ IsParagraph(s, a, b)
        /\ ~ParagraphIsHeading(s, a)
        /\ ParagraphWords(s, a, b) > limit

\* C1: has_long_paragraph returns true exactly when some paragraph
\* (delimited by blank or white-space-only lines) that does not start with
\* the heading marker holds more white-space-delimited words than the
\* ceiling; so it returns false for headings and paragraphs within it.
C1_GateIffLongParagraph ==
    gate_pc = "done" =>
        (gate_result <=> SomeLongParagraph(markdown_text, word_limit))

\* a heading, a white-space-only line and a paragraph over a ceiling >= 1
C1_Witness ==
    /\ gate_pc = "done"
    /\ gate_result
    /\ word_limit >= 1
    /\ \E a \in 1..NumLines(markdown_text) :
            /\ IsParagraph(markdown_text, a, a)
            /\ ParagraphIsHeading(markdown_text, a)
            /\ BlankLine(markdown_text, a + 1)

(***************************************************************************)
(* C3 - C5.  The host of a link as a reader of the URL sees it: the        *)
(* scheme and the authority marker are optional, user-info is not part of  *)
(* the host.  A link is well formed when it has a scheme, the authority    *)
(* marker and a non-empty host without stray brackets.                     *)
(***************************************************************************)
RECURSIVE AfterUserInfo(_)
AfterUserInfo(s) ==
    IF InSeq("user@", s) THEN AfterUserInfo(Tail(s)) ELSE s

HostOf(url) ==
    LET a == IF url # <<>> /\ Head(url) = "http:" THEN Tail(url) ELSE url
        b == IF a # <<>> /\ Head(a) = "//" THEN Tail(a) ELSE a
    IN  AfterUserInfo(UpToPath(b))

HostStartsWithDocs(url) == HostOf(url) # <<>> /\ Lower(Head(HostOf(url))) = "docs."

WellFormed(url) ==
    /\ Len(url) >= 3
    /\ url[1] = "http:"
    /\ url[2] = "//"
    /\ HostOf(url) # <<>>
    /\ ~InSeq("[", url)

Returned == {sel_out.value[i] : i \in 1..Len(sel_out.value)}

\* C3: for every k >= 0 and every result list select_similar returns at
\* most min(k, number of results surviving the filter) items, each one of
\* the filtered inputs, in order of non-increasing similarity.
C3_AtMostKSortedFiltered ==
    sel_pc = "done" =>
        LET out == sel_out.value
            f == FilterKept(results)
        IN  /\ ~sel_out.raised
            /\ Len(out) <= k
            /\ Len(out) <= Len(f)
            /\ \A i \in 1..Len(out) : \E j \in 1..Len(f) : f[j] = out[i]
            /\ \A i, j \in 1..Len(out) : i # j => out[i] # out[j]
            /\ \A i, j \in 1..Len(out) : i < j => out[i].sim >= out[j].sim

\* an unsorted input with a dropped result, cut by k
C3_Witness ==
    /\ sel_pc = "done"
    /\ Len(results) = 3
    /\ Len(FilterKept(results)) = 2
    /\ k = 1
    /\ Len(sel_out.value) = 1
    /\ sel_out.value[1].title = 3
    /\ \E i \in 1..2 : Kept(results[i]) /\ results[i].sim < results[3].sim

\* C4: no result whose link's host starts with "docs." (in any letter
\* case, with or without user-info or a scheme) is in the output.
C4_NoDocsHostReturned ==
    sel_pc = "done" => \A r \in Returned : ~HostStartsWithDocs(r.link)

\* C5: a result with no link, or with a malformed or unparseable link, is
\* never in the output and never makes select_similar fail.
C5_MalformedNeverReturned ==
    sel_pc = "done" =>
        /\ ~sel_out.raised
        /\ \A r \in Returned : LinkTruthy(r) /\ WellFormed(r.link)

(***************************************************************************)
(* C6, C9, C10.  extract_entities.                                         *)
(***************************************************************************)
\* the first position of x in all
FirstSeen(all, x) == CHOOSE i \in 1..Len(all) : all[i] = x /\ \A j \in 1..(i - 1) : all[j] # x

\* the ranking by descending count with ties in first-seen order
FirstSeenOrder(all) ==
    CHOOSE o \in ValueCountsOrders(all) :
        \A i, j \in 1..Len(o) :
            (i < j /\ Count(all, o[i]) = Count(all, o[j]))
                => FirstSeen(all, o[i]) < FirstSeen(all, o[j])

\* C6: a URL whose analysis fails contributes nothing and does not abort
\* the batch: every URL is visited and the result is the aggregate over the
\* pages analyzed without failure, also when the failure comes part-way
\* through a page's entities.
C6_FailedPageContributesNothing ==
    ent_pc = "done" =>
        /\ page_i = n_urls
        /\ ent_out \in EntityResults(ok_entities, top_n)

\* C9: identifiers with equal counts are ranked in the order they were
\* first seen, and that order decides which of them survive the cut.
C9_TiesFirstSeen ==
    (ent_pc = "done" /\ all_entities # <<>>) =>
        ent_out = Take(FirstSeenOrder(all_entities), top_n)

\* C10: at most top_n identifiers, no duplicates, and each returned
\* identifier's count is >= the count of every identifier ranked after it
\* and of every kept identifier left out.
C10_TopNByCount ==
    ent_pc = "done" =>
        /\ Len(ent_out) <= top_n
        /\ Injective(ent_out)
        /\ Ids(ent_out) \subseteq Ids(all_entities)
        /\ \A i, j \in 1..Len(ent_out) :
              i < j => Count(all_entities, ent_out[i]) >= Count(all_entities, ent_out[j])
        /\ \A i \in 1..Len(ent_out) : \A x \in Ids(all_entities) \ Ids(ent_out) :
              Count(all_entities, ent_out[i]) >= Count(all_entities, x)

\* two identifiers with different counts, cut to the more frequent one
C10_Witness ==
    /\ ent_pc = "done"
    /\ top_n = 1
    /\ Len(ent_out) = 1
    /\ \E x \in Ids(all_entities) :
          /\ x # ent_out[1]
          /\ Count(all_entities, x) < Count(all_entities, ent_out[1])

(***************************************************************************)
(* C2, C7, C8.  The generation calls of a run of the handler.              *)
(***************************************************************************)
StagesOf(cs) == [i \in 1..Len(cs) |-> cs[i].stage]

IsPrefix(a, b) == Len(a) <= Len(b) /\ \A i \in 1..Len(a) : a[i] = b[i]

NumCalls(stage) == Cardinality({i \in 1..Len(calls) : calls[i].stage = stage})

StageDone(stage) == \E i \in 1..Len(calls) : calls[i].stage = stage /\ calls[i].ok

GateWasTrue == gate_log # <<>> /\ gate_log[1].result

ExpectedCalls ==
    IF gate_log = <<>> THEN <<"outline", "article">>
    ELSE IF GateWasTrue THEN <<"outline", "article", "refactor", "polish">>
    ELSE <<"outline", "article", "polish">>

\* the handler has ended a run that reached the generation stages
RunEnded == pc = "idle" /\ outcome \in {"failed", "done"} /\ calls # <<>>

\* C2 as stated: every run issues 3 or 4 generation calls, in the order
\* outline, article, optional refactor, polish, the refactor call once
\* exactly when the gate was true for the draft.
C2_EveryRunThreeOrFourCalls ==
    RunEnded =>
        /\ Len(calls) \in {3, 4}
        /\ StagesOf(calls) = ExpectedCalls
        /\ NumCalls("refactor") = IF GateWasTrue THEN 1 ELSE 0

\* C2, amended: the gate is evaluated at most once in a run and only on the
\* draft; the calls of a run are, in order, a prefix of outline, article,
\* refactor (exactly when the gate was true), polish; once the gate has
\* answered and the run has moved on, the refactor call was issued once if
\* it was true and never if it was false; a run that completes issued the
\* whole sequence, 3 or 4 calls.
C2_RefactorOnceIffGateTrue ==
    /\ Len(gate_log) <= 1
    /\ \A i \in 1..Len(gate_log) : gate_log[i].stage = "article"
    /\ IsPrefix(StagesOf(calls), ExpectedCalls)
    /\ gate_log = <<>> => NumCalls("refactor") = 0
    /\ (gate_log # <<>> /\ pc \in {"polish", "idle"}) =>
          NumCalls("refactor") = IF GateWasTrue THEN 1 ELSE 0
    /\ (pc = "idle" /\ outcome = "done") =>
          /\ StagesOf(calls) = ExpectedCalls
          /\ Len(calls) \in {3, 4}

\* the refactor call answered a text that is itself too long, and the run
\* has gone on to the polish call without a second test
C2_Witness ==
    /\ pc = "polish"
    /\ article.stage = "refactor"
    /\ has_long_paragraph(MarkdownOf(article.doc), default_word_limit)
    /\ Len(gate_log) = 1
    /\ StagesOf(calls) = <<"outline", "article", "refactor">>

\* C7 as stated: after a failed generation call the outputs of the stages
\* completed before it are still held for the caller: the outline, and the
\* draft or refactored article when a later stage failed.
C7_CompletedOutputsKept ==
    (pc = "idle" /\ outcome = "failed") =>
        /\ StageDone("outline") =>
              session_outline = [run |-> run, stage |-> "outline", doc |-> "h2_100"]
        /\ StageDone("article") =>
              /\ session_article.run = run
              /\ session_article.stage \in {"article", "refactor"}

\* C7, amended: after a failed generation call the outline of the run is
\* held in the session state; the draft or refactored article is not: the
\* session keeps the article it held before the run.
C7_OutlineKeptArticleNot ==
    (pc = "idle" /\ outcome = "failed") =>
        /\ StageDone("outline") =>
              session_outline = [run |-> run, stage |-> "outline", doc |-> "h2_100"]
        /\ session_article = prev_article

\* the polish call fails after outline, article and refactor, in a session
\* that holds the article of an earlier run
C7_Witness ==
    /\ pc = "idle"
    /\ outcome = "failed"
    /\ StageDone("refactor")
    /\ ~calls[Len(calls)].ok
    /\ calls[Len(calls)].stage = "polish"
    /\ session_outline.run = run
    /\ session_article # None

\* C8: a failing generation call gets one attempt and ends the run: no
\* stage is requested twice, nothing is requested after a failed request,
\* and the handler's except clause has run exactly once.
C8_FailureFatalOnce ==
    /\ \A st \in {"outline", "article", "refactor", "polish"} : NumCalls(st) <= 1
    /\ \A i \in 1..Len(calls) :
          ~calls[i].ok =>
              /\ i = Len(calls)
              /\ pc = "idle"
              /\ outcome \in {"failed", "cleared"}
              /\ errors = 1

\* the article call fails after the outline call succeeded
C8_Witness ==
    /\ pc = "idle"
    /\ outcome = "failed"
    /\ errors = 1
    /\ Len(calls) = 2
    /\ calls[1].ok
    /\ ~calls[2].ok

(***************************************************************************)
(* C11.  What extract_entities counts.                                     *)
(***************************************************************************)
\* an identifier without its letter case
Folded(id) == IF id \in {"kafka", "Kafka"} THEN "kafka" ELSE id

\* the step hands one more entity of the page to the loop body
ReadsOne == read_n' = read_n + 1

\* C11: every occurrence of an entity whose relevance score is >= the
\* threshold adds exactly one to the count of its lowercased identifier, an
\* occurrence below the threshold adds nothing, nothing else changes the
\* counts (they sum within and across pages), and a top-1 result is an
\* identifier of greatest count.
C11_CountsRelevantOccurrences ==
    /\ [][IF ReadsOne
          THEN IF cur_entity'.relevance_score >= min_relevance
               THEN all_entities' = Append(all_entities, Folded(cur_entity'.id))
               ELSE all_entities' = all_entities
          ELSE all_entities' = all_entities]_vars
    /\ [](ent_pc = "done" /\ top_n >= 1 /\ all_entities # <<>> =>
            /\ Len(ent_out) >= 1
            /\ \A x \in Ids(all_entities) :
                  Count(all_entities, ent_out[1]) >= Count(all_entities, x))

\* the second page has just handed over "Kafka" exactly at the threshold:
\* with "kafka" from both pages that makes kafka=3, flink=1
C11_Witness ==
    /\ ent_pc = "iter"
    /\ page_i = 2
    /\ cur_entity = [id |-> "Kafka", relevance_score |-> min_relevance]
    /\ Count(all_entities, "kafka") = 3
    /\ Count(all_entities, "flink") = 1
    /\ Count(all_entities, "Kafka") = 0

(***************************************************************************)
(* C12.  A search whose results are all dropped by the filter.             *)
(***************************************************************************)
\* the handler is at step 2 with results none of which passes the filter
NothingSurvives == pc = "select" /\ FilterKept(top10) = <<>>

\* the handler is past step 2 with no competitor selected
NoCompetitors ==
    /\ pc \in {"headings", "outline", "article", "gate", "refactor", "polish"}
    /\ selected_urls = <<>>

\* C12: when no result passes the link/docs filter, select_similar returns
\* the empty sequence, raises nothing and does not call the embedding
\* function; the run goes on without an error, the competitor outlines and
\* the entities are empty, and the outline generation call is made.
C12_EmptySelectionTolerated ==
    /\ [](NothingSurvives =>
            select_similar(top10, default_k) =
                [raised |-> FALSE, value |-> <<>>, embedded |-> FALSE])
    /\ [][NothingSurvives =>
            /\ pc' = "headings"
            /\ selected_urls' = <<>>
            /\ errors' = errors
            /\ outcome' = outcome]_vars
    /\ [](NoCompetitors =>
            /\ competitor_outlines = <<>>
            /\ pc # "headings" => must_include_entities = <<>>
            /\ errors = 0
            /\ outcome = "running")
    /\ (NothingSurvives ~> (calls # <<>> /\ calls[1].stage = "outline"))

\* a run whose search results were all dropped has reached the polish stage
C12_Witness ==
    /\ pc = "polish"
    /\ top10 # <<>>
    /\ FilterKept(top10) = <<>>
    /\ selected_urls = <<>>
    /\ competitor_outlines = <<>>
    /\ must_include_entities = <<>>
    /\ Len(calls) >= 2

(***************************************************************************)
(* C13.  Competitor pages that cannot be fetched or parsed.                *)
(***************************************************************************)
\* the URL is not one a fetch can be made of
InvalidUrl(url) == url = <<>> \/ Head(url) # "http:"

\* fetching the page fails, times out, answers a non-2xx status, or its
\* markup cannot be parsed
PageFailed(url, o) ==
    \/ InvalidUrl(url)
    \/ o.response \in {"timeout", "connection_error", "status_404"}
    \/ o.body = "unparsable"

\* the handler is in the loop of step 3 with a URL left
InHeadingsLoop == pc = "headings" /\ Len(competitor_outlines) < Len(selected_urls)

\* C13: extract_headings raises for no URL and no failure of the fetch or
\* of the parser; a page that fails gets an outline with empty headings,
\* the run goes on without an error, and every selected URL gets its
\* outline, in order, before the next stage starts.
C13_FailedPageEmptyHeadings ==
    /\ [](InHeadingsLoop =>
            \A o \in PageOutcomes :
                LET url == selected_urls[Len(competitor_outlines) + 1].link
                IN  /\ ~extract_headings(url, o).raised
                    /\ PageFailed(url, o) => extract_headings(url, o).value = <<>>)
    /\ [][InHeadingsLoop =>
            LET n == Len(competitor_outlines) + 1
            IN  /\ pc' = "headings"
                /\ errors' = errors
                /\ outcome' = outcome
                /\ Len(competitor_outlines') = n
                /\ SubSeq(competitor_outlines', 1, n - 1) = competitor_outlines
                /\ competitor_outlines'[n].url = selected_urls[n].link
                /\ PageFailed(selected_urls[n].link, fetched') =>
                      competitor_outlines'[n].headings = <<>>]_vars
    /\ [](pc \in {"outline", "article", "gate", "refactor", "polish"} =>
            /\ Len(competitor_outlines) = Len(selected_urls)
            /\ \A i \in 1..Len(selected_urls) :
                  competitor_outlines[i].url = selected_urls[i].link)

\* the first page, an invalid URL, got empty headings; the second page was
\* then fetched and its headings were read
C13_Witness ==
    /\ pc = "headings"
    /\ Len(selected_urls) = 2
    /\ Len(competitor_outlines) = 2
    /\ InvalidUrl(competitor_outlines[1].url)
    /\ competitor_outlines[1].headings = <<>>
    /\ fetched.response = "status_200"
    /\ competitor_outlines[2].headings = <<<<"H1", "Title">>, <<"H3", "Sub">>>>
    /\ errors = 0

(***************************************************************************)
(* C14.  The style rules text.                                             *)
(***************************************************************************)
\* where word i starts, less one, in the words joined by comma-space
RECURSIVE WordOffset(_, _)
WordOffset(ws, i) == IF i = 1 THEN 0 ELSE WordOffset(ws, i - 1) + Len(ws[i - 1]) + 2

\* the words verbatim, in their order, a comma and a space between two
\* neighbours, given character by character
CommaSpaceJoined(ws) ==
    IF ws = <<>> THEN <<>>
    ELSE [p \in 1..(WordOffset(ws, Len(ws)) + Len(ws[Len(ws)])) |->
            LET i == CHOOSE j \in 1..Len(ws) :
                        /\ WordOffset(ws, j) < p
                        /\ j < Len(ws) => p <= WordOffset(ws, j + 1)
                q == p - WordOffset(ws, i)
            IN  IF q <= Len(ws[i]) THEN ws[i][q]
                ELSE IF q = Len(ws[i]) + 1 THEN "," ELSE " "]

\* t occurs in s as a contiguous part
Contains(s, t) ==
    \E a \in 0..(Len(s) - Len(t)) : SubSeq(s, a + 1, a + Len(t)) = t

\* C14: two calls of get_style_rules on the same arguments return the
\* same text, and the text holds the banned words verbatim, in input order,
\* joined by comma-space (nothing for the empty list), on the line after
\* the rules, and each of the four free texts verbatim after its label.
C14_StyleRulesVerbatim ==
    \A c \in 1..Len(style_rules) :
        /\ style_rules[c] = style_rules[1]
        /\ Contains(style_rules[c],
               <<"RULES">> \o CommaSpaceJoined(banned_words) \o <<"\n">>)
        /\ Contains(style_rules[c], <<"Tone: ">> \o tonality \o <<"\n">>)
        /\ Contains(style_rules[c], <<"Context: ">> \o context \o <<"\n">>)
        /\ Contains(style_rules[c], <<"Theme: ">> \o theme \o <<"\n">>)
        /\ Contains(style_rules[c], <<"Audience: ">> \o audience_persona \o <<"\n">>)

\* two calls made on a list that holds an empty string and a word with the
\* separator inside, with free texts that differ
C14_Witness ==
    /\ Len(style_rules) = 2
    /\ banned_words = <<<<>>, <<",", " ">>>>
    /\ tonality = <<"x">>
    /\ context = <<>>
    /\ theme = <<"x">>
    /\ audience_persona = <<>>

(***************************************************************************)
(* C15.  The outline and the article of the session state.                 *)
(***************************************************************************)
\* C15: whenever the handler is at rest, after any Generate runs and Clear
\* All actions, the outline and the article of the session state are both
\* absent or were both produced by the same run.
C15_OutlineAndArticleOfOneRun ==
    pc = "idle" =>
        \/ session_outline = None /\ session_article = None
        \/ /\ session_outline # None
           /\ session_article # None
           /\ session_outline.run = session_article.run

====
